---- MODULE Spec2Model ----
(***************************************************************************)
(* A model of psx.go: the lexicon (lexicon.go), the message codec          *)
(* (wiremsg.go) and the connection engine (psx.go).                        *)
(*                                                                         *)
(* Go strings are modelled as sequences of one-character strings, so that  *)
(* splitting, indexing, Atoi and Itoa are computed as the code computes    *)
(* them.  A nil *MessageDef is the empty set, a non-nil one a singleton.   *)
(***************************************************************************)
EXTENDS Integers, Sequences, FiniteSets, TLC

(***************************************************************************)
(* strings / strconv                                                       *)
(***************************************************************************)

Digits == <<"0", "1", "2", "3", "4", "5", "6", "7", "8", "9">>

IsDigit(ch) == \E d \in 1..10 : Digits[d] = ch

DigitVal(ch) == (CHOOSE d \in 1..10 : Digits[d] = ch) - 1

\* strings.Index(s, ch) for a one-character needle, 0-based, -1 when absent
Index(s, ch) ==
  IF \E i \in 1..Len(s) : s[i] = ch
  THEN (CHOOSE i \in 1..Len(s) : s[i] = ch /\ \A j \in 1..(i - 1) : s[j] # ch) - 1
  ELSE -1

\* the Go slice s[lo:hi] (0-based, hi exclusive)
Slice(s, lo, hi) == SubSeq(s, lo + 1, hi)

RECURSIVE DigitsValue(_)
DigitsValue(s) ==
  IF Len(s) = 0 THEN 0
  ELSE DigitsValue(SubSeq(s, 1, Len(s) - 1)) * 10 + DigitVal(s[Len(s)])

\* strconv.Atoi: an optional sign, then one or more decimal digits.
\* (The model's strings are short, so the range error cannot happen.)
Atoi(s) ==
  LET signed == Len(s) > 0 /\ s[1] \in {"-", "+"}
      body   == IF signed THEN Tail(s) ELSE s
  IN  IF Len(body) < 1 \/ \E i \in 1..Len(body) : ~IsDigit(body[i])
      THEN [n |-> 0, err |-> TRUE]
      ELSE [n |-> IF signed /\ s[1] = "-" THEN 0 - DigitsValue(body)
                  ELSE DigitsValue(body),
            err |-> FALSE]

RECURSIVE NatToStr(_)
NatToStr(n) ==
  IF n < 10 THEN <<Digits[n + 1]>>
  ELSE NatToStr(n \div 10) \o <<Digits[(n % 10) + 1]>>

\* strconv.Itoa
Itoa(n) == IF n < 0 THEN <<"-">> \o NatToStr(0 - n) ELSE NatToStr(n)

\* strings.Join(list, sep)
RECURSIVE Join(_, _)
Join(list, sep) ==
  IF Len(list) = 0 THEN <<>>
  ELSE IF Len(list) = 1 THEN list[1]
  ELSE list[1] \o sep \o Join(Tail(list), sep)

(***************************************************************************)
(* lexicon.go                                                              *)
(***************************************************************************)

MsgTypeI == 0
MsgTypeS == 1
MsgTypeH == 2

MsgModeStart   == 0
MsgModeCont    == 1
MsgModeEcon    == 2
MsgModeDelta   == 3
MsgModeBigmom  == 4
MsgModeMcpmom  == 5
MsgModeGuamom2 == 6
MsgModeGuamom4 == 7
MsgModeCdukeyb == 8
MsgModeRcp     == 9
MsgModeAcp     == 10
MsgModeMixed   == 11
MsgModeXdelta  == 12
MsgModeXecon   == 13
MsgModeDemand  == 14

\* the letters of parseLexicon's second switch, in the order of the MsgMode constants
ModeLetters ==
  <<"S", "C", "E", "D", "B", "M", "G", "F", "K", "R", "A", "X", "Y", "Z", "N">>

\* a MessageDef value
MessageDef(type, mode, index, name) ==
  [MessageType |-> type, MessageMode |-> mode, Index |-> index, HumanName |-> name]

\* KeyString giving every definition the prefix of an integer parameter
KeyStringIgnoresType(msgdef) == <<"Q", "i">> \o Itoa(msgdef.Index)

\* MessageDef.KeyString
KeyString(msgdef) ==
  IF msgdef.MessageType = MsgTypeI THEN <<"Q", "i">> \o Itoa(msgdef.Index)
  ELSE IF msgdef.MessageType = MsgTypeS THEN <<"Q", "s">> \o Itoa(msgdef.Index)
  ELSE IF msgdef.MessageType = MsgTypeH THEN <<"Q", "h">> \o Itoa(msgdef.Index)
  ELSE <<>>

\* parseLexicon: res is "ok" (def holds the definition), "syntax"
\* (lexiconSyntaxError), "numerr" (the error of strconv.Atoi) or "panic"
\* (an index out of range: key[0] of an empty key, key[suffixIdx+1] of a key
\* that ends with its first parenthesis).
parseLexicon(lexMsg) ==
  LET key       == lexMsg.key
      fail(r)   == [res |-> r, def |-> {}]
      suffixIdx == Index(key, "(")
      idx       == Atoi(Slice(key, 2, suffixIdx))
      type      == IF key[2] = "i" THEN MsgTypeI
                   ELSE IF key[2] = "s" THEN MsgTypeS ELSE MsgTypeH
      letter    == key[suffixIdx + 2]
      mode      == (CHOOSE m \in 1..Len(ModeLetters) : ModeLetters[m] = letter) - 1
  IN  IF Len(key) = 0 THEN fail("panic")
      ELSE IF key[1] # "L" THEN fail("syntax")
      ELSE IF Len(key) < 6 THEN fail("syntax")
      ELSE IF key[2] \notin {"i", "s", "h"} THEN fail("syntax")
      ELSE IF suffixIdx < 0 THEN fail("syntax")
      ELSE IF idx.err THEN fail("numerr")
      ELSE IF suffixIdx + 1 >= Len(key) THEN fail("panic")
      ELSE IF \A m \in 1..Len(ModeLetters) : ModeLetters[m] # letter THEN fail("syntax")
      ELSE [res |-> "ok", def |-> {MessageDef(type, mode, idx.n, lexMsg.Value)}]

\* a map write that drops the other keys
MapSetAlone(m, k, v) == [x \in {k} |-> v]

\* a Go map write m[k] = v
MapSet(m, k, v) == [x \in DOMAIN m \cup {k} |-> IF x = k THEN v ELSE m[x]]

\* the empty Go map
EmptyMap == [x \in {} |-> {}]

\* newLexicon
newLexicon == [forward |-> EmptyMap, reverse |-> EmptyMap]

\* lexicon.keyFor
keyFor(lex, humanName) ==
  IF humanName \in DOMAIN lex.reverse THEN KeyString(lex.reverse[humanName]) ELSE <<>>

\* lexicon.humanNameFor
humanNameFor(lex, keyName) ==
  IF keyName \in DOMAIN lex.forward THEN lex.forward[keyName].HumanName ELSE <<>>

\* lexicon.parse: the lexicon after the call, and the call's result
lexParse(lex, msgIn) ==
  LET p  == parseLexicon(msgIn)
      md == CHOOSE d \in p.def : TRUE
  IN  IF p.res # "ok" THEN [res |-> p.res, lex |-> lex]
      ELSE [res |-> "ok",
            lex |-> [reverse |-> MapSet(lex.reverse, md.HumanName, md),
                     forward |-> MapSet(lex.forward, KeyString(md), md)]]

(***************************************************************************)
(* wiremsg.go                                                              *)
(***************************************************************************)

\* relinkKey of a message that has no lexicon
relinkKeyNoLexicon(lex, key) == {}

\* WireMsg.relinkKey, for a message linked to lexicon lex: the new definition
relinkKey(lex, key) ==
  IF key \in DOMAIN lex.forward THEN {lex.forward[key]} ELSE {}

\* newWireMsg, before the message is linked to a lexicon
newWireMsg == [key |-> <<>>, HasValue |-> FALSE, Value |-> <<>>, definition |-> {}]

\* parseMsg: WireMsg.Parse on a new message
parseMsg(lex, line) ==
  LET eq  == Index(line, "=")
      key == IF eq < 0 THEN line ELSE Slice(line, 0, eq)
  IN  [key        |-> key,
       HasValue   |-> eq >= 0,
       Value      |-> IF eq < 0 THEN <<>> ELSE Slice(line, eq + 1, Len(line)),
       definition |-> relinkKey(lex, key)]

\* GetDecodedKey that never looks the key up
GetDecodedKeyCacheOnly(lex, msg) ==
  IF msg.definition # {} THEN (CHOOSE d \in msg.definition : TRUE).HumanName
  ELSE msg.key

\* WireMsg.GetDecodedKey
GetDecodedKey(lex, msg) ==
  LET definition == IF msg.definition = {} THEN relinkKey(lex, msg.key)
                    ELSE msg.definition
  IN  IF definition # {} THEN (CHOOSE d \in definition : TRUE).HumanName
      ELSE msg.key

\* SetDecodedKey that keeps the human name as the key
SetDecodedKeyKeepsName(lex, humanName) ==
  [key |-> humanName,
   definition |-> IF humanName \in DOMAIN lex.reverse THEN {lex.reverse[humanName]}
                  ELSE {}]

\* WireMsg.SetDecodedKey on a new message: its key and definition
SetDecodedKey(lex, humanName) ==
  IF humanName \in DOMAIN lex.reverse
  THEN [key |-> KeyString(lex.reverse[humanName]),
        definition |-> {lex.reverse[humanName]}]
  ELSE [key |-> humanName, definition |-> {}]

\* Connection.NewPair
NewPair(lex, humanKey, value) ==
  LET k == SetDecodedKey(lex, humanKey)
  IN  [key |-> k.key, HasValue |-> TRUE, Value |-> value, definition |-> k.definition]

\* WireMsg.WireString
WireString(msg) ==
  IF msg.HasValue THEN msg.key \o <<"=">> \o msg.Value ELSE msg.key

\* strings.Split(s, sep) for a one-character separator
RECURSIVE Split(_, _)
Split(s, sep) ==
  LET at == Index(s, sep)
  IN  IF at < 0 THEN <<s>>
      ELSE <<Slice(s, 0, at)>> \o Split(Slice(s, at + 1, Len(s)), sep)

\* Parse cutting the line at every "=" and keeping the first two parts
ParseSplitAll(msg, lex, line) ==
  LET parts == Split(line, "=")
  IN  [key        |-> parts[1],
       HasValue   |-> Len(parts) > 1,
       Value      |-> IF Len(parts) > 1 THEN parts[2] ELSE msg.Value,
       definition |-> relinkKey(lex, parts[1])]

\* WireMsg.Parse on message msg, linked to lexicon lex: a line without "="
\* leaves msg.Value as it was
Parse(msg, lex, line) ==
  LET eq  == Index(line, "=")
      key == IF eq < 0 THEN line ELSE Slice(line, 0, eq)
  IN  [key        |-> key,
       HasValue   |-> eq >= 0,
       Value      |-> IF eq < 0 THEN msg.Value ELSE Slice(line, eq + 1, Len(line)),
       definition |-> relinkKey(lex, key)]

\* the message after WireMsg.GetDecodedKey: an empty definition is looked up
Decoded(lex, msg) ==
  [msg EXCEPT !.definition = IF msg.definition = {} THEN relinkKey(lex, msg.key)
                             ELSE msg.definition]

\* WireMsg.String
String(lex, msg) ==
  IF msg.HasValue THEN GetDecodedKey(lex, msg) \o <<"=">> \o msg.Value ELSE msg.key

\* WireMsg.ValueAtSubIndex: res is "ok" (value holds the field), "notfound"
\* or "panic" (parts[idx] with a negative idx is an index out of range)
ValueAtSubIndex(msg, idx) ==
  LET parts == Split(msg.Value, ";")
  IN  IF ~msg.HasValue THEN [res |-> "notfound", value |-> <<>>]
      ELSE IF idx >= Len(parts) THEN [res |-> "notfound", value |-> <<>>]
      ELSE IF idx < 0 THEN [res |-> "panic", value |-> <<>>]
      ELSE [res |-> "ok", value |-> parts[idx + 1]]

(***************************************************************************)
(* psx.go: the Connection                                                  *)
(***************************************************************************)

connPhaseDisconnected   == 0
connPhaseNew            == 1
connPhaseLoad1          == 2
connPhaseLoad2          == 3
connPhaseRunning        == 4
connPhaseFailed         == 5
connPhaseEnded          == 6
connPhaseListenerExited == 7

\* a nil *net.TCPConn, and the one live handle a Connection can hold
Nil == "nil"
Handle == "tcp"

\* the lines the server sends in the model
L_id7      == <<"i", "d", "=", "7">>
L_version  == <<"v", "e", "r", "s", "i", "o", "n", "=", "1", ".", "0">>
L_load1    == <<"l", "o", "a", "d", "1">>
L_load2    == <<"l", "o", "a", "d", "2">>
L_load3    == <<"l", "o", "a", "d", "3">>
L_exit     == <<"e", "x", "i", "t">>
L_def      == <<"L", "h", "4", "0", "2", "(", "K", ")", "=", "K", "e", "y", "b">>
L_data     == <<"Q", "h", "4", "0", "2", "=", "3", "4">>
L_nokey    == <<"=", "x">>
L_trunc    == <<"L", "h", "4", "0", "2", "(", "=", "x">>
\* a definition whose human name is the key of the identity line
L_defname  == <<"L", "s", "1", "(", "S", ")", "=", "n", "a", "m", "e">>

Lines ==
  {L_id7, L_version, L_load1, L_load2, L_load3, L_exit, L_def, L_data,
   L_nokey, L_trunc, L_defname}

\* human names the client subscribes to and sends under
N_Keyb == <<"K", "e", "y", "b">>
N_Nope == <<"N", "o", "p", "e">>
SubNames == {N_Keyb, N_Nope}

K_id      == <<"i", "d">>
K_version == <<"v", "e", "r", "s", "i", "o", "n">>
K_name    == <<"n", "a", "m", "e">>
K_notify  == <<"n", "o", "t", "i", "f", "y">>

\* Connection.ClientName
ClientName == <<"p", "w">>

\* Connection.Hooks, filled by the caller before Connect: TRUE is a callback,
\* FALSE a nil callback stored in the map
Hooks ==
  [n \in {N_Keyb, K_id, L_load1} |-> TRUE] @@ [n \in {K_version} |-> FALSE]

\* the outcomes of one net.TCPConn.Write on an open connection: all bytes
\* accepted, an error, or fewer bytes accepted without an error
WriteOutcomes == {"ok", "err", "short"}

\* the outcomes of Connect's ResolveTCPAddr and DialTCP
DialOutcomes == {"ok", "resolve_err", "dial_err"}

VARIABLES
  connPhase,     \* Connection.connPhase
  conn,          \* Connection.conn: Nil or Handle
  sock,          \* the TCP connection behind Handle: "none", "open", "closed"
  myId,          \* Connection.myId
  version,       \* Connection.version
  notify,        \* Connection.notify
  lex,           \* Connection.lex
  InstanceName,  \* Connection.InstanceName
  lpc,           \* where the Listener goroutine is: "idle", "loop", "cleanup"
  upc,           \* where the caller's goroutine is inside SendMsg / Disconnect
  panicked,      \* a panic has ended the process
  misuse,        \* the first Write or Close made on a nil or closed handle
  fed,           \* lines of Scenario received so far by this Listener, -1 once its input differs
  wmsg,          \* a WireMsg the caller holds
  ev             \* the last operation: what it saw and what it did

vars ==
  <<connPhase, conn, sock, myId, version, notify, lex, InstanceName,
    lpc, upc, panicked, misuse, fed, wmsg, ev>>

Event(op, line, res, sends, hooks) ==
  [op |-> op, line |-> line, phase0 |-> connPhase, conn0 |-> conn,
   res |-> res, sends |-> sends, hooks |-> hooks]

\* NewConnection
Init ==
  /\ connPhase = connPhaseDisconnected
  /\ conn = Nil
  /\ sock = "none"
  /\ myId = 0
  /\ version = <<>>
  /\ notify = <<>>
  /\ lex = newLexicon
  /\ InstanceName \in {<<>>, <<"a">>}
  /\ lpc = "idle"
  /\ upc = "idle"
  /\ panicked = FALSE
  /\ misuse = "none"
  /\ fed = -1
  /\ wmsg = newWireMsg
  /\ ev = Event("NewConnection", <<>>, "nil", <<>>, <<>>)

\* Connection.callHook: the callbacks it invokes
callHook(hooks, hookName) ==
  IF hookName \in DOMAIN hooks /\ hooks[hookName] THEN <<hookName>> ELSE <<>>

\* sendLine without its check of pconn.conn
sendLineNoCheck(c, sk, line, w) ==
  IF w = "short" THEN [res |-> "short", panic |-> TRUE, bad |-> "none"]
  ELSE [res |-> w, panic |-> FALSE, bad |-> "none"]

\* sendLine returning an error for a short write
sendLineShortIsError(c, sk, line, w) ==
  IF c = Nil THEN [res |-> "NotConnected", panic |-> FALSE, bad |-> "none"]
  ELSE IF sk # "open" THEN [res |-> "err", panic |-> FALSE, bad |-> "write_closed"]
  ELSE IF w = "ok" THEN [res |-> "ok", panic |-> FALSE, bad |-> "none"]
  ELSE [res |-> IF w = "short" THEN "short" ELSE "err", panic |-> FALSE, bad |-> "none"]

\* Connection.sendLine with pconn.conn = c and the connection in state sk;
\* w is what Write does on an open connection.  bad names a Write that
\* reaches a closed connection.
sendLine(c, sk, line, w) ==
  IF c = Nil THEN [res |-> "NotConnected", panic |-> FALSE, bad |-> "none"]
  ELSE IF sk # "open" THEN [res |-> "err", panic |-> FALSE, bad |-> "write_closed"]
  ELSE IF w = "err" THEN [res |-> "err", panic |-> FALSE, bad |-> "none"]
  ELSE IF w = "short" THEN [res |-> "short", panic |-> TRUE, bad |-> "none"]
  ELSE [res |-> "ok", panic |-> FALSE, bad |-> "none"]

\* Connection.SendMsg: the calls of Write it makes, and how it ends
SendMsg(c, sk, msg, w) ==
  LET r == sendLine(c, sk, WireString(msg), w)
  IN  [sends |-> <<[line |-> WireString(msg), res |-> r.res]>>,
       panic |-> r.panic, bad |-> r.bad]

NoSend == [sends |-> <<>>, panic |-> FALSE, bad |-> "none"]

\* Connection.sendName
sendName(lx, client, instance, c, sk, w) ==
  LET nameOut == IF instance # <<>> THEN client \o <<";">> \o instance ELSE client
  IN  SendMsg(c, sk, NewPair(lx, K_name, nameOut), w)

\* sendNotify listing a name the lexicon does not know as it is
sendNotifyLiteral(lx, subs, c, sk, w) ==
  LET notifyList == [i \in 1..Len(subs) |->
                       IF keyFor(lx, subs[i]) # <<>> THEN keyFor(lx, subs[i])
                       ELSE subs[i]]
  IN  IF Len(notifyList) > 0
      THEN SendMsg(c, sk, NewPair(lx, K_notify, Join(notifyList, <<";">>)), w)
      ELSE NoSend

\* Connection.sendNotify
sendNotify(lx, subs, c, sk, w) ==
  LET known      == SelectSeq(subs, LAMBDA v : keyFor(lx, v) # <<>>)
      notifyList == [i \in 1..Len(known) |-> keyFor(lx, known[i])]
  IN  IF Len(notifyList) > 0
      THEN SendMsg(c, sk, NewPair(lx, K_notify, Join(notifyList, <<";">>)), w)
      ELSE NoSend

\* the switch with case "load2" falling into case "load3"
NextPhaseLoad2Skips(key, phase) ==
  IF key = L_load1 THEN connPhaseLoad1
  ELSE IF key \in {L_load2, L_load3} THEN connPhaseRunning
  ELSE IF key = L_exit THEN connPhaseEnded
  ELSE phase

\* Listener's switch: the phase after a message with this key
NextPhase(key, phase) ==
  IF key = L_load1 THEN connPhaseLoad1
  ELSE IF key = L_load2 THEN connPhaseLoad2
  ELSE IF key = L_load3 THEN connPhaseRunning
  ELSE IF key = L_exit THEN connPhaseEnded
  ELSE phase

\* case "load1" without its test of the phase
NotifyDueAnyPhase(key, phase) == key = L_load1

\* Listener's switch, case "load1": whether sendNotify is called
NotifyDue(key, phase) == key = L_load1 /\ phase = connPhaseNew

\* the default case without its test of the phase
LearnAnyPhase(lx, msg, phase) ==
  IF msg.key \in {K_id, K_version, L_load1, L_load2, L_load3, L_exit}
     \/ ~msg.HasValue
  THEN [res |-> "skip", lex |-> lx]
  ELSE IF Len(msg.key) = 0 THEN [res |-> "panic", lex |-> lx]
  ELSE IF msg.key[1] = "L" THEN lexParse(lx, msg)
  ELSE [res |-> "skip", lex |-> lx]

\* Listener's switch, default case: what becomes of the lexicon.  The key's
\* first byte is read only in phase New and only for a message with a value.
Learn(lx, msg, phase) ==
  IF msg.key \in {K_id, K_version, L_load1, L_load2, L_load3, L_exit}
     \/ ~msg.HasValue \/ phase # connPhaseNew
  THEN [res |-> "skip", lex |-> lx]
  ELSE IF Len(msg.key) = 0 THEN [res |-> "panic", lex |-> lx]
  ELSE IF msg.key[1] = "L" THEN lexParse(lx, msg)
  ELSE [res |-> "skip", lex |-> lx]

\* Listener's switch, cases "id" and "version"
NextId(msg, id) == IF msg.key = K_id THEN Atoi(msg.Value).n ELSE id

NextVersion(msg, v) == IF msg.key = K_version THEN msg.Value ELSE v

\* Connect without its test of the phase
ConnectNoBusy(c, phase, dial) ==
  IF c # Nil THEN [res |-> "nil", conn |-> c, phase |-> phase, dialled |-> FALSE]
  ELSE IF dial # "ok"
  THEN [res |-> dial, conn |-> Nil, phase |-> phase, dialled |-> FALSE]
  ELSE [res |-> "nil", conn |-> Handle, phase |-> connPhaseNew, dialled |-> TRUE]

\* Connection.Connect: its result, and the handle and phase it leaves
Connect(c, phase, dial) ==
  IF c # Nil THEN [res |-> "nil", conn |-> c, phase |-> phase, dialled |-> FALSE]
  ELSE IF phase # connPhaseListenerExited /\ phase # connPhaseDisconnected
  THEN [res |-> "ConnectionBusy", conn |-> c, phase |-> phase, dialled |-> FALSE]
  ELSE IF dial # "ok"
  THEN [res |-> dial, conn |-> Nil, phase |-> phase, dialled |-> FALSE]
  ELSE [res |-> "nil", conn |-> Handle, phase |-> connPhaseNew, dialled |-> TRUE]

\* Disconnect without its last line, pconn.conn = nil
DisconnectKeepsHandle(c, sk, w) ==
  LET s == sendLine(c, sk, L_exit, w)
  IN  IF c = Nil
      THEN [conn |-> c, sock |-> sk, sends |-> <<>>, panic |-> FALSE, bad |-> "none"]
      ELSE [conn |-> c, sock |-> IF s.panic THEN sk ELSE "closed",
            sends |-> <<[line |-> L_exit, res |-> s.res]>>, panic |-> s.panic,
            bad |-> s.bad]

\* Connection.Disconnect, run without interruption
Disconnect(c, sk, w) ==
  LET s == sendLine(c, sk, L_exit, w)
  IN  IF c = Nil
      THEN [conn |-> c, sock |-> sk, sends |-> <<>>, panic |-> FALSE, bad |-> "none"]
      ELSE IF s.panic
      THEN [conn |-> c, sock |-> sk, sends |-> <<[line |-> L_exit, res |-> s.res]>>,
            panic |-> TRUE, bad |-> s.bad]
      ELSE [conn |-> Nil, sock |-> "closed",
            sends |-> <<[line |-> L_exit, res |-> s.res]>>, panic |-> FALSE,
            bad |-> IF s.bad # "none" THEN s.bad
                    ELSE IF sk # "open" THEN "close_closed" ELSE "none"]

\* Subscribe without its search of the list
SubscribeAlways(subs, humanKey) == Append(subs, humanKey)

\* Connection.Subscribe
Subscribe(subs, humanKey) ==
  IF \E i \in 1..Len(subs) : subs[i] = humanKey THEN subs ELSE Append(subs, humanKey)

Noted(bad) == IF misuse = "none" THEN bad ELSE misuse

(***************************************************************************)
(* The operations, each run without interruption                           *)
(***************************************************************************)

DoConnect(dial) ==
  /\ ~panicked /\ upc = "idle"
  /\ LET r == Connect(conn, connPhase, dial)
     IN  /\ conn' = r.conn
         /\ connPhase' = r.phase
         /\ sock' = IF r.dialled THEN "open" ELSE sock
         /\ ev' = Event("Connect", <<>>, r.res, <<>>, <<>>)
  /\ UNCHANGED <<wmsg, myId, version, notify, lex, InstanceName, lpc, upc,
                 panicked, misuse, fed>>

DoSubscribe(humanKey) ==
  /\ ~panicked /\ upc = "idle"
  /\ notify' = Subscribe(notify, humanKey)
  /\ ev' = Event("Subscribe", humanKey, "nil", <<>>, <<>>)
  /\ UNCHANGED <<wmsg, connPhase, conn, sock, myId, version, lex, InstanceName,
                 lpc, upc, panicked, misuse, fed>>

DoSendMsg(humanKey, w) ==
  /\ ~panicked /\ upc = "idle"
  /\ LET r == SendMsg(conn, sock, NewPair(lex, humanKey, <<"1">>), w)
     IN  /\ panicked' = r.panic
         /\ misuse' = Noted(r.bad)
         /\ ev' = Event("SendMsg", humanKey, r.sends[1].res, r.sends, <<>>)
  /\ UNCHANGED <<wmsg, connPhase, conn, sock, myId, version, notify, lex,
                 InstanceName, lpc, upc, fed>>

DoDisconnect(w) ==
  /\ ~panicked /\ upc = "idle"
  /\ LET r == Disconnect(conn, sock, w)
     IN  /\ conn' = r.conn
         /\ sock' = r.sock
         /\ panicked' = r.panic
         /\ misuse' = Noted(r.bad)
         /\ ev' = Event("Disconnect", <<>>, "nil", r.sends, <<>>)
  /\ UNCHANGED <<wmsg, connPhase, myId, version, notify, lex, InstanceName,
                 lpc, upc, fed>>

\* Listener is started after a Connect that left a handle, one at a time
ListenerStart ==
  /\ ~panicked /\ lpc = "idle" /\ conn # Nil
  /\ lpc' = "loop"
  /\ fed' = 0
  /\ ev' = Event("Listener", <<>>, "nil", <<>>, <<>>)
  /\ UNCHANGED <<wmsg, connPhase, conn, sock, myId, version, notify, lex,
                 InstanceName, upc, panicked, misuse>>

Scenario == <<L_id7, L_version, L_load1, L_load2, L_load3>>

\* one pass of Listener's loop over a line that ReadLine returned
ListenerLine(line, w) ==
  /\ ~panicked /\ lpc = "loop"
  /\ LET msg   == parseMsg(lex, line)
         sent  == IF msg.key = K_id
                  THEN sendName(lex, ClientName, InstanceName, conn, sock, w)
                  ELSE IF NotifyDue(msg.key, connPhase)
                  THEN sendNotify(lex, notify, conn, sock, w)
                  ELSE NoSend
         learn == Learn(lex, msg, connPhase)
         died  == sent.panic \/ learn.res = "panic"
     IN  /\ myId' = NextId(msg, myId)
         /\ version' = NextVersion(msg, version)
         /\ connPhase' = IF sent.panic THEN connPhase ELSE NextPhase(msg.key, connPhase)
         /\ lex' = learn.lex
         /\ panicked' = died
         /\ misuse' = Noted(sent.bad)
         /\ ev' = Event("line", line, IF died THEN "panic" ELSE "nil", sent.sends,
                        IF died THEN <<>>
                        ELSE callHook(Hooks, GetDecodedKey(learn.lex, msg)))
  /\ fed' = IF fed >= 0 /\ fed < Len(Scenario) /\ line = Scenario[fed + 1]
            THEN fed + 1 ELSE -1
  /\ UNCHANGED <<wmsg, conn, sock, notify, InstanceName, lpc, upc>>

\* ReadLine returns an error: the loop ends
ListenerReadFail ==
  /\ ~panicked /\ lpc = "loop"
  /\ lpc' = "cleanup"
  /\ connPhase' = connPhaseFailed
  /\ fed' = -1
  /\ ev' = Event("readfail", <<>>, "err", <<>>, <<>>)
  /\ UNCHANGED <<wmsg, conn, sock, myId, version, notify, lex, InstanceName,
                 upc, panicked, misuse>>

\* after the loop: Disconnect, then phase ListenerExited, and Listener returns
ListenerCleanup(w) ==
  /\ ~panicked /\ lpc = "cleanup"
  /\ LET r == Disconnect(conn, sock, w)
     IN  /\ conn' = r.conn
         /\ sock' = r.sock
         /\ panicked' = r.panic
         /\ misuse' = Noted(r.bad)
         /\ connPhase' = IF r.panic THEN connPhase ELSE connPhaseListenerExited
         /\ lpc' = IF r.panic THEN lpc ELSE "idle"
         /\ ev' = Event("return", <<>>, IF r.panic THEN "panic" ELSE "nil", r.sends, <<>>)
  /\ UNCHANGED <<wmsg, myId, version, notify, lex, InstanceName, upc, fed>>

\* what the next Write can do: on no handle or a closed connection there is
\* one outcome, whatever w is
Writes == IF conn # Nil /\ sock = "open" THEN WriteOutcomes ELSE {"ok"}

\* the lines whose built-in reaction can send
WritesFor(line) ==
  IF parseMsg(lex, line).key \in {K_id, L_load1} THEN Writes ELSE {"ok"}

ListenerNext ==
  \/ ListenerStart
  \/ \E line \in Lines : \E w \in WritesFor(line) : ListenerLine(line, w)
  \/ ListenerReadFail
  \/ \E w \in Writes : ListenerCleanup(w)

Next ==
  \/ \E dial \in DialOutcomes : DoConnect(dial)
  \/ \E humanKey \in SubNames : DoSubscribe(humanKey)
  \/ \E humanKey \in SubNames : \E w \in Writes : DoSendMsg(humanKey, w)
  \/ \E w \in Writes : DoDisconnect(w)
  \/ ListenerNext

Spec == Init /\ [][Next]_vars

(***************************************************************************)
(* The caller's SendMsg and Disconnect, step by step.  Connection has no   *)
(* lock: a call made from another goroutine reads and writes pconn.conn    *)
(* between the steps of the Listener.  upc is the caller's place:          *)
(*   "send.write"  sendLine saw a handle and is about to call Write        *)
(*   "disc.send"   Disconnect saw a handle and is about to call sendLine   *)
(*   "disc.write"  that sendLine saw a handle and is about to call Write   *)
(*   "disc.close"  sendLine has returned, Close is next                    *)
(*   "disc.nil"    Close has returned, pconn.conn = nil is next            *)
(***************************************************************************)

\* what a method call on a nil *net.TCPConn does: the built program either
\* panics on the nil receiver or gets the call's error back
NilCallOutcomes == {"panic", "err"}

\* pconn.conn.Write(msg) in sendLine, with pconn.conn read again at the call
WriteAt(c, sk, line, w, n) ==
  IF c = Nil THEN [res |-> n, panic |-> n = "panic", bad |-> "write_nil"]
  ELSE sendLine(c, sk, line, w)

\* pconn.conn.Close() in Disconnect
CloseAt(c, sk, n) ==
  IF c = Nil THEN [sock |-> sk, panic |-> n = "panic", bad |-> "close_nil"]
  ELSE IF sk # "open" THEN [sock |-> sk, panic |-> FALSE, bad |-> "close_closed"]
  ELSE [sock |-> "closed", panic |-> FALSE, bad |-> "none"]

\* the line of the caller's message: a name no definition line carries
RaceLine == WireString(NewPair(newLexicon, N_Nope, <<"1">>))

RaceSendCheck ==
  /\ ~panicked /\ upc = "idle"
  /\ upc' = IF conn = Nil THEN "idle" ELSE "send.write"
  /\ ev' = Event("SendMsg", N_Nope, IF conn = Nil THEN "NotConnected" ELSE "checked",
                 <<>>, <<>>)
  /\ UNCHANGED <<wmsg, connPhase, conn, sock, myId, version, notify, lex,
                 InstanceName, lpc, panicked, misuse, fed>>

RaceSendWrite(w, n) ==
  /\ ~panicked /\ upc = "send.write"
  /\ LET r == WriteAt(conn, sock, RaceLine, w, n)
     IN  /\ panicked' = r.panic
         /\ misuse' = Noted(r.bad)
         /\ ev' = Event("SendMsg", N_Nope, r.res, <<[line |-> RaceLine, res |-> r.res]>>, <<>>)
  /\ upc' = "idle"
  /\ UNCHANGED <<wmsg, connPhase, conn, sock, myId, version, notify, lex,
                 InstanceName, lpc, fed>>

RaceDisconnectCheck ==
  /\ ~panicked /\ upc = "idle"
  /\ upc' = IF conn = Nil THEN "idle" ELSE "disc.send"
  /\ ev' = Event("Disconnect", <<>>, "nil", <<>>, <<>>)
  /\ UNCHANGED <<wmsg, connPhase, conn, sock, myId, version, notify, lex,
                 InstanceName, lpc, panicked, misuse, fed>>

RaceDisconnectSend ==
  /\ ~panicked /\ upc = "disc.send"
  /\ upc' = IF conn = Nil THEN "disc.close" ELSE "disc.write"
  /\ ev' = Event("Disconnect", L_exit, IF conn = Nil THEN "NotConnected" ELSE "checked",
                 <<>>, <<>>)
  /\ UNCHANGED <<wmsg, connPhase, conn, sock, myId, version, notify, lex,
                 InstanceName, lpc, panicked, misuse, fed>>

RaceDisconnectWrite(w, n) ==
  /\ ~panicked /\ upc = "disc.write"
  /\ LET r == WriteAt(conn, sock, L_exit, w, n)
     IN  /\ panicked' = r.panic
         /\ misuse' = Noted(r.bad)
         /\ ev' = Event("Disconnect", L_exit, r.res, <<[line |-> L_exit, res |-> r.res]>>, <<>>)
  /\ upc' = "disc.close"
  /\ UNCHANGED <<wmsg, connPhase, conn, sock, myId, version, notify, lex,
                 InstanceName, lpc, fed>>

RaceDisconnectClose(n) ==
  /\ ~panicked /\ upc = "disc.close"
  /\ LET r == CloseAt(conn, sock, n)
     IN  /\ sock' = r.sock
         /\ panicked' = r.panic
         /\ misuse' = Noted(r.bad)
         /\ ev' = Event("Disconnect", <<>>, IF r.panic THEN "panic" ELSE "closed", <<>>, <<>>)
  /\ upc' = "disc.nil"
  /\ UNCHANGED <<wmsg, connPhase, conn, myId, version, notify, lex,
                 InstanceName, lpc, fed>>

RaceDisconnectNil ==
  /\ ~panicked /\ upc = "disc.nil"
  /\ conn' = Nil
  /\ upc' = "idle"
  /\ ev' = Event("Disconnect", <<>>, "nil", <<>>, <<>>)
  /\ UNCHANGED <<wmsg, connPhase, sock, myId, version, notify, lex,
                 InstanceName, lpc, panicked, misuse, fed>>

\* what a call on pconn.conn can do when pconn.conn is nil
NilCalls == IF conn = Nil THEN NilCallOutcomes ELSE {"err"}

RaceNext ==
  \/ \E dial \in DialOutcomes : DoConnect(dial)
  \/ DoSubscribe(N_Keyb)
  \/ RaceSendCheck
  \/ \E w \in Writes, n \in NilCalls : RaceSendWrite(w, n)
  \/ RaceDisconnectCheck
  \/ RaceDisconnectSend
  \/ \E w \in Writes, n \in NilCalls : RaceDisconnectWrite(w, n)
  \/ \E n \in NilCalls : RaceDisconnectClose(n)
  \/ RaceDisconnectNil
  \/ ListenerNext

\* one Listener, and one other goroutine calling into the Connection
InitRace == Init /\ InstanceName = <<>>

SpecRace == InitRace /\ [][RaceNext]_vars

(***************************************************************************)
(* The lexicon on its own: lexicon.parse called on messages made by        *)
(* parseMsg(nil, line), as lexicon_test.go calls it.                       *)
(***************************************************************************)

N_Uplk == <<"U", "p", "l", "k">>
N_Neg  == <<"N", "e", "g">>
N_Pos  == <<"P", "o", "s">>

\* a lexicon line "L<kind><index>(<mode>)=<name>"
DefLine(kind, idx, mode, name) ==
  <<"L", kind>> \o idx \o <<"(", mode, ")", "=">> \o name

I_402  == <<"4", "0", "2">>
I_0402 == <<"0", "4", "0", "2">>
I_242  == <<"2", "4", "2">>
I_7    == <<"7">>
I_0    == <<"0">>

\* lines that name a wire id or a human name a second time
D_uplk == DefLine("h", I_402, "Z", N_Uplk)
D_move == DefLine("i", I_242, "Z", N_Keyb)
\* lines whose index carries a sign
D_neg  == DefLine("h", <<"-", "5">>, "K", N_Neg)
D_pos  == DefLine("h", <<"+", "5">>, "K", N_Pos)
\* lines parseLexicon has a check for
B_noL   == <<"X", "h", "4", "0", "2", "(", "K", ")", "=", "A">>
B_short == <<"L", "h", "(", "K", ")", "=", "A">>
B_kind  == <<"L", "x", "4", "0", "2", "(", "K", ")", "=", "A">>
B_paren == <<"L", "h", "4", "0", "2", "K", ")", "=", "A">>
B_index == <<"L", "h", "4", "a", "2", "(", "K", ")", "=", "A">>
B_mode  == <<"L", "h", "4", "0", "2", "(", "q", ")", "=", "A">>

BadLines == {B_noL, B_short, B_kind, B_paren, B_index, B_mode, L_nokey, L_trunc}

LexLines == {L_def, D_uplk, D_move, D_neg, D_pos} \cup BadLines

\* lexicon.parse(msgIn) on the Connection's lexicon
Register(msgIn) ==
  /\ ~panicked
  /\ LET r == lexParse(lex, msgIn)
     IN  /\ lex' = r.lex
         /\ panicked' = (r.res = "panic")
         /\ ev' = [op |-> "register", msg |-> msgIn, res |-> r.res, lex0 |-> lex]
  /\ UNCHANGED <<wmsg, connPhase, conn, sock, myId, version, notify,
                 InstanceName, lpc, upc, misuse, fed>>

RegisterLine == \E line \in LexLines : Register(parseMsg(newLexicon, line))

InitLexicon == Init /\ InstanceName = <<>>

\* any sequence of lexicon.parse calls over LexLines
SpecLexicon == InitLexicon /\ [][RegisterLine]_vars

\* the well-formed lines: every kind letter, every mode letter, indexes
\* written with and without leading zeros
KindLetters == {"i", "s", "h"}
IndexForms == {I_402, I_0402, I_242, I_7, I_0}
LineNames == {N_Keyb, N_Uplk}

WellFormed ==
  {DefLine(kind, idx, ModeLetters[m], name) :
     kind \in KindLetters, idx \in IndexForms,
     m \in 1..Len(ModeLetters), name \in LineNames}

\* the caller holds parseMsg(nil, line) of some line, the lexicon is new
InitParse ==
  /\ connPhase = connPhaseDisconnected
  /\ conn = Nil
  /\ sock = "none"
  /\ myId = 0
  /\ version = <<>>
  /\ notify = <<>>
  /\ lex = newLexicon
  /\ InstanceName = <<>>
  /\ lpc = "idle"
  /\ upc = "idle"
  /\ panicked = FALSE
  /\ misuse = "none"
  /\ fed = -1
  /\ wmsg \in {parseMsg(newLexicon, line) : line \in WellFormed \cup LexLines}
  /\ ev = Event("NewConnection", <<>>, "nil", <<>>, <<>>)

\* lexicon.parse of the held message, once
RegisterHeld == ev.op = "NewConnection" /\ Register(wmsg)

SpecParse == InitParse /\ [][RegisterHeld]_vars

(***************************************************************************)
(* The message codec: one WireMsg held by the caller and linked to the     *)
(* Connection's lexicon, which learns definitions between the calls.       *)
(***************************************************************************)

K_qh402 == <<"Q", "h", "4", "0", "2">>
L_eq    == <<"v", "=", "1", "=", "2">>
L_two   == <<"p", "=", "a", ";", "b">>
L_empty == <<"e", "=">>
N_eq    == <<"a", "=", "b">>

\* the lines given to Parse, the names and the value given to NewPair
CodecLines == {L_data, K_qh402, L_eq, L_two, L_empty}
CodecNames == {N_Keyb, N_Uplk, N_Nope, N_eq}
CodecValue == <<"1">>

\* the largest index asked of ValueAtSubIndex; the smallest is -1
MaxIdx == 2

\* the definitions the lexicon learns: one wire id, under two names
CodecRegister == \E line \in {L_def, D_uplk} : Register(parseMsg(newLexicon, line))

\* parseMsg(lex, line) when fresh, msg.Parse(line) on the held message otherwise
CodecParse(line, fresh) ==
  /\ ~panicked
  /\ wmsg' = Parse(IF fresh THEN newWireMsg ELSE wmsg, lex, line)
  /\ ev' = [op |-> "parse", line |-> line, msg0 |-> wmsg]
  /\ UNCHANGED <<connPhase, conn, sock, myId, version, notify, lex,
                 InstanceName, lpc, upc, panicked, misuse, fed>>

\* Connection.NewPair
CodecNewPair(humanKey) ==
  /\ ~panicked
  /\ wmsg' = NewPair(lex, humanKey, CodecValue)
  /\ ev' = [op |-> "NewPair", name |-> humanKey, value |-> CodecValue]
  /\ UNCHANGED <<connPhase, conn, sock, myId, version, notify, lex,
                 InstanceName, lpc, upc, panicked, misuse, fed>>

\* WireMsg.GetDecodedKey on the held message
CodecDecode ==
  /\ ~panicked
  /\ wmsg' = Decoded(lex, wmsg)
  /\ ev' = [op |-> "decode", msg0 |-> wmsg, res |-> GetDecodedKey(lex, wmsg)]
  /\ UNCHANGED <<connPhase, conn, sock, myId, version, notify, lex,
                 InstanceName, lpc, upc, panicked, misuse, fed>>

\* WireMsg.ValueAtSubIndex on the held message
CodecValueAt(idx) ==
  /\ ~panicked
  /\ LET r == ValueAtSubIndex(wmsg, idx)
     IN  /\ panicked' = (r.res = "panic")
         /\ ev' = [op |-> "valueAt", idx |-> idx, res |-> r.res, value |-> r.value]
  /\ UNCHANGED <<wmsg, connPhase, conn, sock, myId, version, notify, lex,
                 InstanceName, lpc, upc, misuse, fed>>

CodecNext ==
  \/ CodecRegister
  \/ \E line \in CodecLines : \E fresh \in BOOLEAN : CodecParse(line, fresh)
  \/ \E humanKey \in CodecNames : CodecNewPair(humanKey)
  \/ CodecDecode
  \/ \E idx \in -1..MaxIdx : CodecValueAt(idx)

SpecCodec == InitLexicon /\ [][CodecNext]_vars

(***************************************************************************)
(* Sessions in which the server sends its id and version lines more than   *)
(* once, with different values.                                            *)
(***************************************************************************)

L_id9      == <<"i", "d", "=", "9">>
L_version2 == <<"v", "e", "r", "s", "i", "o", "n", "=", "2">>

IdLines == {L_id7, L_id9, L_version, L_version2}

IdNext ==
  \/ \E dial \in DialOutcomes : DoConnect(dial)
  \/ ListenerStart
  \/ \E line \in IdLines : \E w \in WritesFor(line) : ListenerLine(line, w)
  \/ ListenerReadFail
  \/ \E w \in Writes : ListenerCleanup(w)

SpecIds == InitLexicon /\ [][IdNext]_vars

(***************************************************************************)
(* Sessions of a client that subscribes to three names, two of which the   *)
(* server defines.                                                         *)
(***************************************************************************)

NotifyNames == {N_Keyb, K_name, N_Nope}
NotifyLines == {L_def, L_defname, L_load1}

NotifyNext ==
  \/ \E dial \in DialOutcomes : DoConnect(dial)
  \/ \E humanKey \in NotifyNames : DoSubscribe(humanKey)
  \/ ListenerStart
  \/ \E line \in NotifyLines : \E w \in WritesFor(line) : ListenerLine(line, w)
  \/ ListenerReadFail
  \/ \E w \in Writes : ListenerCleanup(w)

SpecNotify == InitLexicon /\ [][NotifyNext]_vars

(***************************************************************************)
(* The claims                                                              *)
(***************************************************************************)

Active == {connPhaseNew, connPhaseLoad1, connPhaseLoad2, connPhaseRunning}

\* C1: a Listener that has received exactly the first k lines of id=7,
\* version=1.0, load1, load2, load3 on a fresh connection is in phase New for
\* k <= 2, Load1 for k = 3, Load2 for k = 4 and Running for k = 5, with
\* myId = 7 from the first line on and version = "1.0" from the second on.
PhaseScenario ==
  (fed >= 0 /\ ~panicked) =>
    /\ connPhase = CASE fed <= 2 -> connPhaseNew
                     [] fed = 3 -> connPhaseLoad1
                     [] fed = 4 -> connPhaseLoad2
                     [] OTHER   -> connPhaseRunning
    /\ fed >= 1 => myId = 7
    /\ fed >= 2 => version = <<"1", ".", "0">>

ScenarioDone ==
  /\ fed = Len(Scenario) /\ lpc = "loop"
  /\ connPhase = connPhaseRunning /\ myId = 7 /\ version = <<"1", ".", "0">>

\* the notify lines among the Writes an operation attempted
NotifySends(e) ==
  SelectSeq(e.sends, LAMBDA s : SubSeq(s.line, 1, Len(K_notify) + 1) = K_notify \o <<"=">>)

IsLine(e, line) == e.op = "line" /\ e.line = line

LexiconOnlyLearnsInNew ==
  [][lex' # lex => (connPhase = connPhaseNew /\ ev'.op = "line")]_vars

DefinitionAfterLoad1NotLearned ==
  /\ IsLine(ev, L_def) /\ ev.phase0 = connPhaseLoad1 /\ ev.res = "nil"
  /\ lex = newLexicon

\* C4 as claimed (a send that ends in a short write set aside): every pass
\* over a received line completes and then calls the hook stored under the
\* message's decoded name once, or no hook when none is stored there.
HookAfterEveryLine ==
  (ev.op = "line" /\ \A i \in 1..Len(ev.sends) : ev.sends[i].res # "short") =>
    /\ ev.res = "nil"
    /\ ev.hooks = callHook(Hooks, GetDecodedKey(lex, parseMsg(lex, ev.line)))

\* C5 as claimed: once the phase is Ended no line is processed, and the
\* phase stays Ended until it becomes ListenerExited.
ExitEndsSession ==
  ev.phase0 = connPhaseEnded =>
    /\ ev.op # "line"
    /\ connPhase \in {connPhaseEnded, connPhaseListenerExited}

\* C6: a read failure, in whatever phase, leaves phase Failed with the loop
\* ended, and the phase stays Failed until Listener's cleanup; when Listener
\* returns the phase is ListenerExited, there is no handle, the connection
\* it held was sent exit and closed, and a Connect would dial.
ReadFailureCleanup ==
  /\ ev.op = "readfail" => (connPhase = connPhaseFailed /\ lpc = "cleanup")
  /\ lpc = "cleanup" => connPhase = connPhaseFailed
  /\ (ev.op = "return" /\ ev.res = "nil") =>
       /\ connPhase = connPhaseListenerExited /\ lpc = "idle"
       /\ conn = Nil /\ sock # "open"
       /\ ev.conn0 # Nil =>
            /\ Len(ev.sends) = 1 /\ ev.sends[1].line = L_exit
            /\ ev.sends[1].res \in {"ok", "err"}
            /\ sock = "closed"
       /\ Connect(conn, connPhase, "ok").dialled

ListenerReturned ==
  /\ ev.op = "return" /\ ev.res = "nil" /\ ev.conn0 # Nil
  /\ ev.phase0 = connPhaseFailed /\ connPhase = connPhaseListenerExited
  /\ conn = Nil /\ sock = "closed"

\* C7: a Connect that finds a handle returns nil and changes nothing; one
\* that finds no handle in a phase other than Disconnected and ListenerExited
\* returns ConnectionBusy and changes nothing; one whose dial fails returns
\* the error and changes nothing; only the remaining one, no handle, phase
\* Disconnected or ListenerExited, dial succeeded, sets phase New.
ConnectContract ==
  [][ev'.op = "Connect" =>
       LET idle  == connPhase \in {connPhaseDisconnected, connPhaseListenerExited}
           same  == UNCHANGED <<wmsg, connPhase, conn, sock, myId, version, notify, lex,
                                InstanceName, lpc, panicked>>
       IN  /\ conn # Nil => (ev'.res = "nil" /\ same)
           /\ (conn = Nil /\ ~idle) => (ev'.res = "ConnectionBusy" /\ same)
           /\ ev'.res \in {"resolve_err", "dial_err"} => (conn = Nil /\ idle /\ same)
           /\ connPhase' # connPhase =>
                /\ conn = Nil /\ idle /\ ev'.res = "nil"
                /\ connPhase' = connPhaseNew /\ conn' = Handle /\ sock' = "open"
           /\ (conn = Nil /\ idle /\ ev'.res = "nil") => connPhase' = connPhaseNew
     ]_vars

ConnectRejectedBusy ==
  /\ ev.op = "Connect" /\ ev.res = "ConnectionBusy"
  /\ ev.conn0 = Nil /\ conn = Nil /\ connPhase = ev.phase0 /\ connPhase \in Active

\* C8 as claimed: with one Listener and calls from another goroutine, no
\* Write or Close is made on a handle that is nil or already closed (so no
\* connection is closed twice).
NoMisuse == misuse = "none"

\* C9: a send made while pconn.conn is nil returns NotConnected without
\* calling Write, and a SendMsg made then changes nothing of the Connection.
SendWithoutHandle ==
  /\ [](ev.conn0 = Nil => \A i \in 1..Len(ev.sends) : ev.sends[i].res = "NotConnected")
  /\ [][(ev'.op = "SendMsg" /\ conn = Nil) =>
          /\ ev'.res = "NotConnected"
          /\ UNCHANGED <<wmsg, connPhase, conn, sock, myId, version, notify, lex,
                         InstanceName, lpc, panicked, misuse>>
       ]_vars

SendRefused ==
  /\ ev.op = "SendMsg" /\ ev.conn0 = Nil /\ ev.res = "NotConnected"
  /\ lex # newLexicon /\ ~panicked

\* C10: a short write is the last thing its operation does and ends the
\* process: the line is attempted once, and afterwards nothing is received,
\* written or changed.
ShortWriteAborts ==
  /\ [](\A i \in 1..Len(ev.sends) :
          ev.sends[i].res = "short" => (panicked /\ i = Len(ev.sends) /\ i = 1))
  /\ [][panicked => UNCHANGED vars]_vars

ShortWriteSeen ==
  /\ panicked /\ IsLine(ev, L_id7)
  /\ Len(ev.sends) = 1 /\ ev.sends[1].res = "short" /\ ev.hooks = <<>>

\* the definitions stored in either index of lexicon lx
Stored(lx) ==
  {lx.forward[k] : k \in DOMAIN lx.forward} \cup {lx.reverse[n] : n \in DOMAIN lx.reverse}

\* C11: after any sequence of lexicon.parse calls, every definition stored in
\* either index is the one the forward index holds under its derived wire id
\* and the one the reverse index holds under its human name.
LexiconConsistent ==
  \A def \in Stored(lex) :
    /\ KeyString(def) \in DOMAIN lex.forward
    /\ lex.forward[KeyString(def)] = def
    /\ def.HumanName \in DOMAIN lex.reverse
    /\ lex.reverse[def.HumanName] = def

\* the lexicon.parse call just made stored a definition
Registered == ev.op = "register" /\ ev.res = "ok"

\* the definition the lexicon.parse call just made stored
NewDef == CHOOSE d \in parseLexicon(ev.msg).def : TRUE

\* C12: when a wire id that is registered under one human name is registered
\* again under another, humanNameFor(wire id) is the second name,
\* keyFor(second name) is the wire id, and keyFor(first name) is no longer
\* the wire id.
SecondRegistrationOnly ==
  (/\ Registered
   /\ KeyString(NewDef) \in DOMAIN ev.lex0.forward
   /\ ev.lex0.forward[KeyString(NewDef)].HumanName # NewDef.HumanName)
  => /\ humanNameFor(lex, KeyString(NewDef)) = NewDef.HumanName
     /\ keyFor(lex, NewDef.HumanName) = KeyString(NewDef)
     /\ keyFor(lex, ev.lex0.forward[KeyString(NewDef)].HumanName) # KeyString(NewDef)

\* the tag of each kind letter and of each mode letter, and the number each
\* index string of IndexForms denotes
TypeOfLetter == ("i" :> MsgTypeI) @@ ("s" :> MsgTypeS) @@ ("h" :> MsgTypeH)

ModeOfLetter ==
  ("S" :> MsgModeStart) @@ ("C" :> MsgModeCont) @@ ("E" :> MsgModeEcon) @@
  ("D" :> MsgModeDelta) @@ ("B" :> MsgModeBigmom) @@ ("M" :> MsgModeMcpmom) @@
  ("G" :> MsgModeGuamom2) @@ ("F" :> MsgModeGuamom4) @@ ("K" :> MsgModeCdukeyb) @@
  ("R" :> MsgModeRcp) @@ ("A" :> MsgModeAcp) @@ ("X" :> MsgModeMixed) @@
  ("Y" :> MsgModeXdelta) @@ ("Z" :> MsgModeXecon) @@ ("N" :> MsgModeDemand)

NumberOf ==
  (I_402 :> 402) @@ (I_0402 :> 402) @@ (I_242 :> 242) @@ (I_7 :> 7) @@ (I_0 :> 0)

\* an index string without its leading zeros
RECURSIVE Canonical(_)
Canonical(idx) ==
  IF Len(idx) > 1 /\ idx[1] = "0" THEN Canonical(Tail(idx)) ELSE idx

\* the lexicon.parse call just made was given the line of these parts
RegisteredLine(kind, idx, letter, name) ==
  /\ ev.op = "register"
  /\ ev.msg = parseMsg(newLexicon, DefLine(kind, idx, letter, name))

\* a message received under wire id key is decoded to name
Resolves(key, name) ==
  GetDecodedKey(lex, parseMsg(lex, key \o <<"=", "1">>)) = name

\* C13 as stated: lexicon.parse of a well-formed line stores a definition with
\* the kind, index, mode and human name of the line, whose derived wire id is
\* "Q" + kind letter + the index as written in the line, and a message
\* received under that wire id resolves to the human name.
WireIdAsWritten ==
  \A kind \in KindLetters, idx \in IndexForms, name \in LineNames :
    \A m \in 1..Len(ModeLetters) :
      RegisteredLine(kind, idx, ModeLetters[m], name) =>
        /\ ev.res = "ok"
        /\ NewDef = MessageDef(TypeOfLetter[kind], ModeOfLetter[ModeLetters[m]],
                               NumberOf[idx], name)
        /\ KeyString(NewDef) = <<"Q", kind>> \o idx
        /\ Resolves(<<"Q", kind>> \o idx, name)

\* C13, amended: lexicon.parse of a well-formed line stores a definition with
\* the kind, index, mode and human name of the line, whose derived wire id is
\* "Q" + kind letter + the index without its leading zeros (the index as
\* written only when it has none), and a message received under that derived
\* wire id resolves to the human name.
WireIdCanonical ==
  \A kind \in KindLetters, idx \in IndexForms, name \in LineNames :
    \A m \in 1..Len(ModeLetters) :
      RegisteredLine(kind, idx, ModeLetters[m], name) =>
        /\ ev.res = "ok"
        /\ NewDef = MessageDef(TypeOfLetter[kind], ModeOfLetter[ModeLetters[m]],
                               NumberOf[idx], name)
        /\ KeyString(NewDef) = <<"Q", kind>> \o Canonical(idx)
        /\ Resolves(<<"Q", kind>> \o Canonical(idx), name)
        /\ (idx # Canonical(idx) => ~Resolves(<<"Q", kind>> \o idx, name))

\* witness of C13: a line whose index has a leading zero was registered
LeadingZeroRegistered ==
  /\ RegisteredLine("h", I_0402, "K", N_Keyb)
  /\ KeyString(NewDef) = <<"Q", "h", "4", "0", "2">>

\* the key of a line is malformed: it does not start with L, is shorter than
\* six characters, has no kind letter of i, s, h, has no parenthesis, has an
\* index that is not a string of decimal digits, or has no mode letter of
\* ModeLetters after the parenthesis
Malformed(key) ==
  LET paren == Index(key, "(")
      index == Slice(key, 2, paren)
  IN  \/ Len(key) = 0
      \/ key[1] # "L"
      \/ Len(key) < 6
      \/ key[2] \notin KindLetters
      \/ paren < 0
      \/ Len(index) = 0
      \/ \E i \in 1..Len(index) : ~IsDigit(index[i])
      \/ paren + 2 > Len(key)
      \/ \A m \in 1..Len(ModeLetters) : ModeLetters[m] # key[paren + 2]

\* C14: lexicon.parse of a malformed line returns an error (the syntax error,
\* or the error of the index conversion) and leaves both indices as they were.
MalformedRejected ==
  (ev.op = "register" /\ Malformed(ev.msg.key)) =>
    /\ ev.res \in {"syntax", "numerr"}
    /\ lex = ev.lex0

\* C15 (a send that ends in a short write set aside): a pass of the Listener
\* over a line with a value, received in phase New, registers the line or
\* leaves the lexicon as it was, completes with the dispatch to the hook, and
\* leaves the Listener in its loop, ready to read the next line.
MalformedLineSurvived ==
  [][(/\ ev'.op = "line"
      /\ connPhase = connPhaseNew
      /\ parseMsg(lex, ev'.line).HasValue
      /\ \A i \in 1..Len(ev'.sends) : ev'.sends[i].res # "short")
     => /\ lex' \in {lex, lexParse(lex, parseMsg(lex, ev'.line)).lex}
        /\ ev'.res = "nil"
        /\ ~panicked'
        /\ lpc' = "loop"]_vars

\* the held message, serialized and parsed again
ParsedBack == parseMsg(lex, WireString(wmsg))

\* C16 as stated: the message Parse leaves serializes to the line it was
\* given, and a message whose key has no "=" serializes to a line that
\* parses to the same key, HasValue and Value.
ParseSerializeInverse ==
  /\ ev.op = "parse" => WireString(wmsg) = ev.line
  /\ Index(wmsg.key, "=") < 0 =>
       /\ ParsedBack.key = wmsg.key
       /\ ParsedBack.HasValue = wmsg.HasValue
       /\ ParsedBack.Value = wmsg.Value

\* C16, amended: the message Parse leaves serializes to the line it was
\* given, and a message whose key has no "=" serializes to a line that
\* parses to the same key and HasValue, to the same Value when the message
\* has a value, and to an empty Value when it has none.
ParseSerializeInverseOfValue ==
  /\ ev.op = "parse" => WireString(wmsg) = ev.line
  /\ Index(wmsg.key, "=") < 0 =>
       /\ ParsedBack.key = wmsg.key
       /\ ParsedBack.HasValue = wmsg.HasValue
       /\ ParsedBack.Value = IF wmsg.HasValue THEN wmsg.Value ELSE <<>>

\* witness of C16: Parse of a line without "=" on a message that had a value
ValueLeftBehind ==
  /\ ev.op = "parse" /\ ev.line = K_qh402
  /\ ~wmsg.HasValue /\ wmsg.Value = <<"1", "=", "2">>

\* C17: the message NewPair builds from a human name and a value serializes
\* to keyFor(name) = value and displays as name = value when the name is
\* registered; when it is not, the key is the name itself, no definition is
\* cached, and the message serializes to name = value.
NewPairStrings ==
  ev.op = "NewPair" =>
    IF ev.name \in DOMAIN lex.reverse
    THEN /\ WireString(wmsg) = keyFor(lex, ev.name) \o <<"=">> \o ev.value
         /\ String(lex, wmsg) = ev.name \o <<"=">> \o ev.value
    ELSE /\ wmsg.key = ev.name
         /\ wmsg.definition = {}
         /\ WireString(wmsg) = ev.name \o <<"=">> \o ev.value

\* witness of C17: NewPair under a registered name
NewPairTranslated ==
  /\ ev.op = "NewPair" /\ ev.name = N_Keyb
  /\ WireString(wmsg) = K_qh402 \o <<"=">> \o CodecValue

\* C18 as stated: GetDecodedKey returns the human name of the definition the
\* lexicon holds for the message's key at the time of the call, and the key
\* itself when the lexicon holds none.
DecodedAsLexicon ==
  ev.op = "decode" =>
    ev.res = IF ev.msg0.key \in DOMAIN lex.forward
             THEN humanNameFor(lex, ev.msg0.key) ELSE ev.msg0.key

\* C18, amended: GetDecodedKey returns the human name of the definition the
\* message has cached; with an empty cache it returns the human name of the
\* definition the lexicon holds for the key at the time of the call, and
\* caches it; when the lexicon holds none it returns the key itself.
DecodedAsCacheThenLexicon ==
  ev.op = "decode" =>
    /\ ev.res = IF ev.msg0.definition # {}
                THEN (CHOOSE d \in ev.msg0.definition : TRUE).HumanName
                ELSE IF ev.msg0.key \in DOMAIN lex.forward
                THEN humanNameFor(lex, ev.msg0.key)
                ELSE ev.msg0.key
    /\ ev.msg0.key \notin DOMAIN lex.forward => ev.msg0.definition = {}
    /\ wmsg.definition = {} <=> ev.msg0.key \notin DOMAIN lex.forward

\* witness of C18: a definition registered after the message was parsed
\* (Parse looks the key up, so the cache was empty) is found by the call
LateDefinitionFound ==
  /\ ev.op = "decode" /\ ev.msg0.key = K_qh402 /\ ev.msg0.definition = {}
  /\ ev.res = N_Keyb

\* C19: ValueAtSubIndex(idx) returns field idx of the value, cut at ";",
\* when the message has a value and 0 <= idx < number of fields, and returns
\* not-found, without a panic, for every other idx and for a message
\* without a value.
ValueAtIndexTotal ==
  ev.op = "valueAt" =>
    LET fields == Split(wmsg.Value, ";")
    IN  IF wmsg.HasValue /\ 0 <= ev.idx /\ ev.idx < Len(fields)
        THEN ev.res = "ok" /\ ev.value = fields[ev.idx + 1]
        ELSE ev.res = "notfound" /\ ~panicked

\* the identity line of this Connection
IdentityLine ==
  K_name \o <<"=">> \o
    (IF InstanceName # <<>> THEN ClientName \o <<";">> \o InstanceName ELSE ClientName)

\* C20: the pass over the line id=7, in whatever active phase, stores 7 as the
\* assigned id, leaves the phase as it was, and makes exactly one send, of
\* the identity line, before the dispatch to the hook of id, which ends the
\* pass (unless the send ended in a short write).
IdLineSendsIdentity ==
  (IsLine(ev, L_id7) /\ ev.phase0 \in Active) =>
    /\ myId = 7
    /\ connPhase = ev.phase0
    /\ Len(ev.sends) = 1
    /\ ev.sends[1].line = IdentityLine
    /\ ev.sends[1].res # "short" => (ev.res = "nil" /\ ev.hooks = <<K_id>>)

\* C21: within a session, the line received right after an id line leaves
\* myId as that id line set it, and the line received right after a version
\* line leaves version as that version line set it.
IdAndVersionWrittenOnce ==
  [][(ev.op = "line" /\ ev'.op = "line" /\ lpc = "loop") =>
       /\ parseMsg(lex, ev.line).key = K_id => myId' = myId
       /\ parseMsg(lex, ev.line).key = K_version => version' = version]_vars

\* the phase the table of load lines gives: a load line moves the phase only
\* from the stage just before its own
LoadTable(line, phase) ==
  IF line = L_load1 /\ phase = connPhaseNew THEN connPhaseLoad1
  ELSE IF line = L_load2 /\ phase = connPhaseLoad1 THEN connPhaseLoad2
  ELSE IF line = L_load3 /\ phase = connPhaseLoad2 THEN connPhaseRunning
  ELSE phase

\* C22: a completed pass over load1, load2 or load3 changes the phase only
\* from New to Load1, from Load1 to Load2 and from Load2 to Running; in any
\* other phase the load line leaves the phase as it was.
LoadLinesInOrder ==
  (ev.op = "line" /\ ev.line \in {L_load1, L_load2, L_load3} /\ ev.res = "nil") =>
    connPhase = LoadTable(ev.line, ev.phase0)

\* the wire ids of the names of subs that the lexicon knows, in the order of subs
RECURSIVE ResolvedIds(_)
ResolvedIds(subs) ==
  IF Len(subs) = 0 THEN <<>>
  ELSE (IF Head(subs) \in DOMAIN lex.reverse
        THEN <<KeyString(lex.reverse[Head(subs)])>> ELSE <<>>)
       \o ResolvedIds(Tail(subs))

\* C23: the value of the notify line sent in the pass over load1 is the list
\* of the wire ids of the subscribed names that resolve in the lexicon, in
\* the order of subscription, joined with ";"; names that do not resolve
\* are left out.
NotifyValue ==
  (IsLine(ev, L_load1) /\ Len(ev.sends) > 0) =>
    /\ Len(ev.sends) = 1
    /\ ResolvedIds(notify) # <<>>
    /\ parseMsg(lex, ev.sends[1].line).Value = Join(ResolvedIds(notify), <<";">>)

\* witness of C23: three names subscribed, the first and the last resolve
NotifyTwoOfThree ==
  /\ IsLine(ev, L_load1)
  /\ notify = <<K_name, N_Nope, N_Keyb>>
  /\ Len(ev.sends) = 1
  /\ ev.sends[1].line = K_notify \o <<"=", "Q", "s", "1", ";">> \o K_qh402

\* list holds name
Holds(list, name) == \E i \in 1..Len(list) : list[i] = name

\* C24: the subscription list never holds a name twice; Subscribe of a name
\* it holds leaves it as it is, Subscribe of any other name puts the name at
\* its end, and no other operation changes the list, so that it holds every
\* name ever subscribed, in the order of the first Subscribe calls.
SubscriptionList ==
  [][/\ \A i, j \in 1..Len(notify') : notify'[i] = notify'[j] => i = j
     /\ ev'.op = "Subscribe" =>
          /\ Holds(notify', ev'.line)
          /\ notify' = IF Holds(notify, ev'.line) THEN notify
                       ELSE notify \o <<ev'.line>>
     /\ ev'.op # "Subscribe" => notify' = notify]_vars

\* witness of C24: Subscribe of the first of three subscribed names, again
SubscribedAgain ==
  /\ ev.op = "Subscribe" /\ ev.line = N_Nope
  /\ notify = <<N_Nope, K_name, N_Keyb>>

\* C25: no step removes a key from the forward or the reverse index of the
\* Connection's lexicon, whatever the operation (a line registered or
\* rejected, the Listener's exit, Disconnect, Connect again), and the
\* lexicon changes only in a pass of the Listener over a line received in
\* phase New.
LexiconAppendOnly ==
  [][/\ DOMAIN lex.forward \subseteq DOMAIN lex'.forward
     /\ DOMAIN lex.reverse \subseteq DOMAIN lex'.reverse
     /\ lex' # lex => (ev'.op = "line" /\ connPhase = connPhaseNew /\ lpc = "loop")]_vars

\* witness of C25: a second session begins with the two definitions the
\* first one learned
ReconnectedWithLexicon ==
  /\ ev.op = "Connect" /\ ev.res = "nil" /\ connPhase = connPhaseNew
  /\ ev.phase0 = connPhaseListenerExited
  /\ DOMAIN lex.forward = {K_qh402, <<"Q", "s", "1">>}
  /\ DOMAIN lex.reverse = {N_Keyb, K_name}

\* the definition the held message has cached, when it has one
Cached == CHOOSE d \in wmsg.definition : TRUE

\* C26 as stated: whatever was registered since the held message was parsed
\* or built, its decoded name is the human name the lexicon holds for its
\* key, whenever the lexicon holds a definition for that key.
DecodedNameCurrent ==
  wmsg.key \in DOMAIN lex.forward =>
    GetDecodedKey(lex, wmsg) = humanNameFor(lex, wmsg.key)

\* C26, amended: when the lexicon holds a definition for the key of the held
\* message, the decoded name is the human name the lexicon holds for the key
\* if the message has no definition cached; otherwise it is the human name
\* of the cached definition, which is a definition of the same wire id, the
\* one the lexicon holds or an earlier one.
DecodedNameCurrentOrCached ==
  wmsg.key \in DOMAIN lex.forward =>
    IF wmsg.definition = {}
    THEN GetDecodedKey(lex, wmsg) = humanNameFor(lex, wmsg.key)
    ELSE /\ GetDecodedKey(lex, wmsg) = Cached.HumanName
         /\ KeyString(Cached) = wmsg.key
         /\ Cached = lex.forward[wmsg.key] =>
              GetDecodedKey(lex, wmsg) = humanNameFor(lex, wmsg.key)

\* witness of C26: a message that resolved to Keyb, held while its wire id
\* is registered again under Uplk
RegisteredAgainSinceResolved ==
  /\ ev.op = "register" /\ ev.res = "ok"
  /\ wmsg.key = K_qh402
  /\ wmsg.definition # {} /\ Cached.HumanName = N_Keyb
  /\ humanNameFor(lex, K_qh402) = N_Uplk
  /\ GetDecodedKey(lex, wmsg) = N_Keyb

====
